---- MODULE Spec2Model ----
(***************************************************************************)
(* Model of the ReceiptScanner widget (src/components/ReceiptScanner.tsx): *)
(* the four React state cells, the object URLs the widget creates and      *)
(* revokes, and every processReceipt call as its own asynchronous          *)
(* continuation that is suspended at the file read and at the model call.  *)
(***************************************************************************)
EXTENDS Integers, Sequences, FiniteSets, TLC

\* ------------------------------------------------------------------ bounds
\* Number of accepted drops (object URLs created, processReceipt calls).
MaxDrops == 2
\* Length, in tokens, of the longest reply text of the external model.
MaxTextLen == 4

\* ------------------------------------------------------- values and inputs
\* The useState cells error, previewUrl and fileType hold null or a value:
\* Null is null and Some(x) the value x.
Null == <<>>
Some(x) == <<x>>

ApiKeyMsg == "API key is not configured. Please add a Gemini API key."
UnsupportedMsg == "Please upload an image or PDF file"
ProcessFailMsg == "Failed to process receipt. Please try again or enter details manually."

\* A MIME type "major/minor"; the empty type "" has both parts empty.
Mime(major, minor) == [major |-> major, minor |-> minor]
PdfType == Mime("application", "pdf")
MimeTypes ==
  { Mime("image", "jpeg"), Mime("image", "gif"), PdfType,
    Mime("text", "plain"), Mime("", "") }

\* Faulty variant: the type test accepts every non-empty declared type.
StartsWithImage_AnyType(t) == t.major # ""

\* file.type.startsWith("image/")
StartsWithImage(t) == t.major = "image"

\* A dropped File: its declared type, whether its bytes can be read
\* (and, for a PDF, loaded by pdf-lib), and the page count of a PDF.
Files ==
  { f \in [type : MimeTypes, readable : BOOLEAN, pages : 0..1] :
      /\ (f.type # PdfType => f.pages = 0)
      /\ (~f.readable => f.pages = 0) }

\* acceptedFiles as handed over by the dropzone (maxFiles: 1)
AcceptedFiles == {<<>>} \cup { <<f>> : f \in Files }

\* A JSON value of the reply: a string or an array of strings.
JsonStr(str) == [t |-> "string", v |-> <<str>>]
JsonArr(strs) == [t |-> "array", v |-> strs]

\* The well-formed JSON members a reply is built from, each a key with its
\* value.  "items:milk" gives items a string, which JSON.parse accepts
\* although ReceiptData declares string[].
MemberTokens ==
  { "items:[]", "items:[milk,eggs,bread]", "items:[milk,eggs,bread,soap]", "items:milk",
    "merchant:Acme", "merchant:", "description:note" }

MemberKey(tok) ==
  CASE tok \in {"items:[]", "items:[milk,eggs,bread]", "items:[milk,eggs,bread,soap]",
                "items:milk"} -> "items"
    [] tok \in {"merchant:Acme", "merchant:"} -> "merchant"
    [] OTHER -> "description"

MemberValue(tok) ==
  CASE tok = "items:[]" -> JsonArr(<<>>)
    [] tok = "items:[milk,eggs,bread]" -> JsonArr(<<"milk", "eggs", "bread">>)
    [] tok = "items:[milk,eggs,bread,soap]" -> JsonArr(<<"milk", "eggs", "bread", "soap">>)
    [] tok = "items:milk" -> JsonStr("milk")
    [] tok = "merchant:Acme" -> JsonStr("Acme")
    [] tok = "merchant:" -> JsonStr("")
    [] OTHER -> JsonStr("note")

\* Reply text of the model, as tokens: "{" and "}" are the braces, a member
\* token is a well-formed JSON member with its separator, "p" is any other
\* character (prose).
Tokens == {"{", "}", "p"} \cup MemberTokens
Texts == UNION { [1..n -> Tokens] : n \in 0..MaxTextLen }
\* A reply: the call rejects (ok = FALSE) or resolves with a text.
Replies == { [ok |-> FALSE, text |-> <<>>] } \cup { [ok |-> TRUE, text |-> t] : t \in Texts }

\* Faulty variant: the whole reply is taken as the JSON text, without extraction.
JsonMatch_WholeText(text) ==
  IF Len(text) >= 2 /\ text[1] = "{" /\ text[Len(text)] = "}" THEN text ELSE <<>>

\* text.match(/\{[\s\S]*\}/): the span from the first "{" to the last "}",
\* <<>> standing for a null match.
JsonMatch(text) ==
  LET opens  == { i \in 1..Len(text) : text[i] = "{" }
      closes == { i \in 1..Len(text) : text[i] = "}" }
  IN IF opens = {} THEN <<>>
     ELSE LET first == CHOOSE i \in opens : \A j \in opens : i <= j
              after == { j \in closes : j > first }
          IN IF after = {} THEN <<>>
             ELSE SubSeq(text, first, CHOOSE j \in after : \A k \in after : k <= j)

\* JSON.parse(span) succeeds: one object whose content is members only.
JsonParses(span) ==
  /\ Len(span) >= 2
  /\ span[1] = "{"
  /\ span[Len(span)] = "}"
  /\ \A i \in 2..(Len(span) - 1) : span[i] \in MemberTokens

\* JSON.parse(span) as ReceiptData, for a span that parses: each field is
\* absent (Null) or holds the value of the last member with its key.
ReceiptKeys == {"items", "merchant", "description"}
JsonDecode(span) ==
  [k \in ReceiptKeys |->
     LET at == { i \in 2..(Len(span) - 1) : MemberKey(span[i]) = k }
     IN IF at = {} THEN Null
        ELSE Some(MemberValue(span[CHOOSE i \in at : \A j \in at : j <= i]))]

\* strs.join(sep)
RECURSIVE Join(_, _)
Join(strs, sep) ==
  IF Len(strs) = 0 THEN ""
  ELSE IF Len(strs) = 1 THEN strs[1]
  ELSE strs[1] \o sep \o Join(Tail(strs), sep)

\* strs.slice(0, n)
Slice(strs, n) == SubSeq(strs, 1, IF Len(strs) < n THEN Len(strs) ELSE n)

\* `receiptData.items && receiptData.items.length > 0`; a string has a length too.
HasItems(data) ==
  /\ data.items # Null
  /\ IF data.items[1].t = "array" THEN Len(data.items[1].v) > 0 ELSE data.items[1].v[1] # ""

\* The description derivation throws: items.slice(0, 3) of a string is a
\* string, which has no join.
DeriveThrows(data) == HasItems(data) /\ data.items[1].t # "array"

\* receiptData after the description derivation, where it does not throw.
DeriveDescription(data) ==
  IF HasItems(data)
    THEN [data EXCEPT !.description =
            Some(JsonStr(Join(Slice(data.items[1].v, 3), ", ")
                         \o (IF Len(data.items[1].v) > 3 THEN "..." ELSE "")))]
    ELSE IF data.merchant # Null /\ data.merchant[1].v[1] # ""
           THEN [data EXCEPT !.description = data.merchant]
           ELSE data

\* ------------------------------------------------------------------- state
Ids == 1..MaxDrops

VARIABLES
  apiKey,       \* the apiKey prop is present
  isLoading,    \* useState(false)
  error,        \* useState<string | null>(null)
  previewUrl,   \* useState<string | null>(null): null or an object URL (its id)
  fileType,     \* useState<string | null>(null): null or a MIME type
  created,      \* object URLs handed out by URL.createObjectURL
  revokeCount,  \* per object URL, the number of URL.revokeObjectURL calls on it
  att,          \* per accepted drop, its processReceipt call
  last,         \* the handler or continuation that ran last
  heard,        \* the reply the latest generateContent continuation was given
  parsed,       \* receiptData as JSON.parse returned it for that reply, if it did
  emitted,      \* the argument of the latest onReceiptData call
  accepted      \* the object URL and declared type of the latest file onDrop accepted

vars ==
  <<apiKey, isLoading, error, previewUrl, fileType, created, revokeCount, att, last,
    heard, parsed, emitted, accepted>>

\* What only the generateContent continuation writes.
parseVars == <<heard, parsed, emitted>>

NoFile == [type |-> Mime("", ""), readable |-> FALSE, pages |-> 0]

\* A processReceipt call that has not been made.  pc is the place the call is
\* at: "encode" (awaiting fileToGenerativePart), "call" (awaiting
\* generateContent), "hung" (awaiting a promise that never settles), "done"
\* (returned).  file is the File while it is still to be read.  keyOk, readOk,
\* encOk, callOk and parseOk record what the call was given: a key, a file
\* whose bytes can be read, a file that can be encoded, a reply that resolved,
\* a reply text holding well-formed JSON.
\* calls and cbs count its generateContent and onReceiptData invocations.
NoAttempt ==
  [pc |-> "none", file |-> NoFile, keyOk |-> FALSE, readOk |-> FALSE, encOk |-> FALSE,
   callOk |-> FALSE, parseOk |-> FALSE, calls |-> 0, cbs |-> 0]

\* What ran last: the handler or continuation (op), the processReceipt call
\* or object URL it concerned (id, 0 for none) and, for a drop, the declared
\* type of the dropped file.
Event(op, id, type) == [op |-> op, id |-> id, type |-> type]

Init ==
  /\ apiKey \in BOOLEAN
  /\ isLoading = FALSE
  /\ error = Null
  /\ previewUrl = Null
  /\ fileType = Null
  /\ created = {}
  /\ revokeCount = [u \in Ids |-> 0]
  /\ att = [a \in Ids |-> NoAttempt]
  /\ last = Event("mount", 0, Null)
  /\ heard = Null
  /\ parsed = Null
  /\ emitted = Null
  /\ accepted = Null

\* --------------------------------------------------------------- clearPreview
\* The four state cells as one record.
Session ==
  [isLoading |-> isLoading, error |-> error, previewUrl |-> previewUrl, fileType |-> fileType]

\* Faulty variant: clearPreview without setPreviewUrl(null).
ClearPreviewResult_KeepsUrl(s) ==
  IF s.previewUrl # Null
    THEN [s EXCEPT !.fileType = Null, !.error = Null]
    ELSE s

\* Faulty variant: clearPreview without setFileType(null).
ClearPreviewResult_KeepsType(s) ==
  IF s.previewUrl # Null
    THEN [s EXCEPT !.previewUrl = Null, !.error = Null]
    ELSE s

\* The cells after clearPreview() has run on session s.
ClearPreviewResult(s) ==
  IF s.previewUrl # Null
    THEN [s EXCEPT !.previewUrl = Null, !.fileType = Null, !.error = Null]
    ELSE s

\* The object URLs clearPreview() revokes when run on session s.
ClearPreviewRevokes(s) == IF s.previewUrl # Null THEN {s.previewUrl[1]} ELSE {}

\* Faulty variant: the remove button is rendered while loading too.
RemoveButtonShown_WhileLoading == previewUrl # Null

\* The "Remove receipt" button, the only caller of clearPreview, is rendered
\* in the branch taken when isLoading is false and previewUrl is set.
RemoveButtonShown == ~isLoading /\ previewUrl # Null

ClearPreview ==
  /\ RemoveButtonShown
  /\ LET r == ClearPreviewResult(Session)
     IN /\ isLoading' = r.isLoading
        /\ error' = r.error
        /\ previewUrl' = r.previewUrl
        /\ fileType' = r.fileType
  /\ revokeCount' =
       [u \in Ids |-> IF u \in ClearPreviewRevokes(Session)
                        THEN revokeCount[u] + 1 ELSE revokeCount[u]]
  /\ last' = Event("clear", previewUrl[1], Null)
  /\ UNCHANGED <<apiKey, created, att, parseVars, accepted>>

\* ------------------------------------------------------- fileToGenerativePart
\* The file can be encoded: its bytes can be read and, for a PDF, the
\* document has at least one page.
Encodable(f) == f.readable /\ (f.type = PdfType => f.pages > 0)

\* How the promise of fileToGenerativePart(f) settles: "ok" (resolves with
\* the inline data), "throws" (rejects), "pending" (never settles).
\* PDF branch: arrayBuffer(), PDFDocument.load() and the page-count check run
\* inside try/catch, which rethrows.  Image branch: the promise is resolved
\* in reader.onloadend from reader.result.split(","); after a failed read
\* reader.result is null, the handler throws outside the promise and resolve
\* is never called.
EncodeResult(f) ==
  IF f.type = PdfType
    THEN IF f.readable /\ f.pages # 0 THEN "ok" ELSE "throws"
    ELSE IF f.readable THEN "ok" ELSE "pending"

\* ------------------------------------------------------------- processReceipt
\* Faulty variant: onReceiptData is called on the failure path as well.
ProcessFailed_CallsBack(a, rec) ==
  /\ error' = Some(ProcessFailMsg)
  /\ isLoading' = FALSE
  /\ att' = [att EXCEPT ![a] = [rec EXCEPT !.pc = "done", !.cbs = @ + 1]]
  /\ last' = Event("failed", a, Null)

\* catch + finally of processReceipt, run by call a.
ProcessFailed(a, rec) ==
  /\ error' = Some(ProcessFailMsg)
  /\ isLoading' = FALSE
  /\ att' = [att EXCEPT ![a] = [rec EXCEPT !.pc = "done"]]
  /\ last' = Event("failed", a, Null)

\* Faulty variant: processReceipt without the apiKey check.
ProcessReceiptStart_NoKeyCheck(a, f) ==
  /\ isLoading' = TRUE
  /\ error' = Null
  /\ att' = [att EXCEPT ![a] =
               [NoAttempt EXCEPT !.pc = "encode", !.file = f, !.keyOk = apiKey,
                                 !.readOk = f.readable, !.encOk = Encodable(f)]]
  /\ last' = Event("start", a, Some(f.type))

\* processReceipt(f) from its call up to its first suspension, for the
\* attempt a that onDrop has just created.
ProcessReceiptStart(a, f) ==
  IF ~apiKey
    THEN /\ error' = Some(ApiKeyMsg)
         /\ isLoading' = FALSE
         /\ att' = [att EXCEPT ![a] =
                      [NoAttempt EXCEPT !.pc = "done", !.readOk = f.readable,
                                        !.encOk = Encodable(f)]]
         /\ last' = Event("noKey", a, Some(f.type))
    ELSE /\ isLoading' = TRUE
         /\ error' = Null
         /\ att' = [att EXCEPT ![a] =
                      [NoAttempt EXCEPT !.pc = "encode", !.file = f, !.keyOk = TRUE,
                                        !.readOk = f.readable,
                                        !.encOk = Encodable(f)]]
         /\ last' = Event("start", a, Some(f.type))

\* The continuation of call a after `await fileToGenerativePart(file)`: on
\* success it issues model.generateContent and suspends again.
Encoded(a) ==
  /\ att[a].pc = "encode"
  /\ LET rec == [att[a] EXCEPT !.file = NoFile]
         res == EncodeResult(att[a].file)
     IN CASE res = "ok" ->
               /\ att' = [att EXCEPT ![a] = [rec EXCEPT !.pc = "call", !.calls = @ + 1]]
               /\ last' = Event("encoded", a, Null)
               /\ UNCHANGED <<isLoading, error>>
          [] res = "throws" -> ProcessFailed(a, rec)
          [] OTHER ->
               /\ att' = [att EXCEPT ![a] = [rec EXCEPT !.pc = "hung"]]
               /\ last' = Event("readLost", a, Null)
               /\ UNCHANGED <<isLoading, error>>
  /\ UNCHANGED <<apiKey, previewUrl, fileType, created, revokeCount, parseVars, accepted>>

\* The continuation of call a after `await model.generateContent(...)`:
\* reply is what the model call gave, cbThrows whether the parent's
\* onReceiptData throws.
Responded(a, reply, cbThrows) ==
  /\ att[a].pc = "call"
  /\ heard' = Some(reply)
  /\ LET span   == JsonMatch(reply.text)
         parses == reply.ok /\ span # <<>> /\ JsonParses(span)
         good   == parses /\ ~DeriveThrows(JsonDecode(span))
         rec    == [att[a] EXCEPT !.callOk = reply.ok, !.parseOk = good]
     IN /\ parsed' = IF parses THEN Some(JsonDecode(span)) ELSE Null
        /\ IF ~good
             THEN ProcessFailed(a, rec) /\ UNCHANGED emitted
             ELSE LET called == [rec EXCEPT !.cbs = @ + 1]
                  IN /\ emitted' = Some(DeriveDescription(JsonDecode(span)))
                     /\ IF cbThrows
                          THEN ProcessFailed(a, called)
                          ELSE /\ isLoading' = FALSE
                               /\ att' = [att EXCEPT ![a] = [called EXCEPT !.pc = "done"]]
                               /\ last' = Event("success", a, Null)
                               /\ UNCHANGED error
  /\ UNCHANGED <<apiKey, previewUrl, fileType, created, revokeCount, accepted>>

\* ---------------------------------------------------------------------- onDrop
\* The cleanup closure onDrop returns is the value of an async callback's
\* promise; nothing calls it, so onDrop revokes nothing.
OnDrop(acceptedFiles) ==
  IF Len(acceptedFiles) = 0
    THEN UNCHANGED vars
    ELSE LET file == acceptedFiles[1]
         IN IF ~StartsWithImage(file.type) /\ file.type # PdfType
              THEN /\ error' = Some(UnsupportedMsg)
                   /\ last' = Event("unsupported", 0, Some(file.type))
                   /\ UNCHANGED <<apiKey, isLoading, previewUrl, fileType, created,
                                  revokeCount, att, parseVars, accepted>>
              ELSE /\ Cardinality(created) < MaxDrops
                   /\ LET objectUrl == Cardinality(created) + 1
                      IN /\ created' = created \cup {objectUrl}
                         /\ previewUrl' = Some(objectUrl)
                         /\ fileType' = Some(file.type)
                         /\ accepted' = Some([url |-> objectUrl, type |-> file.type])
                         /\ ProcessReceiptStart(objectUrl, file)
                   /\ UNCHANGED <<apiKey, revokeCount, parseVars>>

\* The parent re-renders the widget with another apiKey prop.
SetApiKey(k) ==
  /\ k # apiKey
  /\ apiKey' = k
  /\ UNCHANGED <<isLoading, error, previewUrl, fileType, created, revokeCount, att, last,
                 parseVars, accepted>>

\* ---------------------------------------------------------------- specification
Drop == \E fs \in AcceptedFiles : OnDrop(fs)
Clear == ClearPreview
EncodeDone == \E a \in Ids : Encoded(a)
\* The reply reaches onReceiptData: it resolved, holds a span that parses,
\* and the description derivation does not throw.
Delivers(r) ==
  /\ r.ok
  /\ JsonParses(JsonMatch(r.text))
  /\ ~DeriveThrows(JsonDecode(JsonMatch(r.text)))

\* The session cells, the object URLs and the counters of a call depend on a
\* reply only through reply.ok, the match, the parse and whether the
\* derivation throws, so in Spec one reply of each such class stands for the
\* class; ParseSpec below, which is about the record itself, draws every reply.
ReplyClass(r) ==
  <<r.ok, JsonMatch(r.text) # <<>>, JsonParses(JsonMatch(r.text)), Delivers(r)>>
ReplySamples ==
  { CHOOSE r \in Replies : ReplyClass(r) = c : c \in { ReplyClass(q) : q \in Replies } }

\* onReceiptData can throw only where it is called.
ModelDone ==
  \E a \in Ids : \E reply \in ReplySamples :
    \E cbThrows \in (IF Delivers(reply) THEN BOOLEAN ELSE {FALSE}) :
      Responded(a, reply, cbThrows)
KeyChange == \E k \in BOOLEAN : SetApiKey(k)

Next == Drop \/ Clear \/ EncodeDone \/ ModelDone \/ KeyChange

Spec == Init /\ [][Next]_vars

\* ------------------------------------------------- one upload, every reply
\* A single readable image is dropped on the fresh widget and its model call
\* is answered by any reply of Replies.
ReceiptImage == [type |-> Mime("image", "jpeg"), readable |-> TRUE, pages |-> 0]
ParseDrop == created = {} /\ OnDrop(<<ReceiptImage>>)
ParseModelDone ==
  \E a \in Ids :
    /\ att[a].pc = "call"
    /\ \E reply \in Replies :
         \E cbThrows \in (IF Delivers(reply) THEN BOOLEAN ELSE {FALSE}) :
           Responded(a, reply, cbThrows)

ParseNext == ParseDrop \/ EncodeDone \/ ParseModelDone

ParseSpec == Init /\ [][ParseNext]_vars

\* ------------------------------------------------------------------ fairness
\* The file read and the model call of every processReceipt call eventually
\* complete or fail, and the event loop then runs the continuation.
LiveSpec ==
  /\ Spec
  /\ \A a \in Ids :
       /\ WF_vars(Encoded(a))
       /\ WF_vars(\E reply \in ReplySamples : \E cbThrows \in BOOLEAN :
                     Responded(a, reply, cbThrows))

\* ------------------------------------------------------------------- claims
\* Object URLs created and not revoked.
LiveUrls == { u \in created : revokeCount[u] = 0 }
\* processReceipt calls suspended at the file read or at the model call.
InFlight == { a \in Ids : att[a].pc \in {"encode", "call"} }
\* The session shows nothing: no preview, no file type, no error, not loading.
Idle(s) == s.previewUrl = Null /\ s.fileType = Null /\ s.error = Null /\ ~s.isLoading
\* The step just taken was made by handler or continuation op.
Ran(op) == last' # last /\ last'.op = op

\* C1: at most one object URL is created and not revoked, and every object
\* URL that is no longer the preview (replaced by a later accepted drop, or
\* removed by clear) has been revoked.
C1_NoLeakedHandles ==
  /\ Cardinality(LiveUrls) <= 1
  /\ \A u \in created : previewUrl # Some(u) => revokeCount[u] >= 1

\* C2: a clear on a session that holds a preview revokes exactly one handle,
\* the previewed object URL, which had not been revoked before; it leaves
\* previewUrl, fileType and error unset; and no step, a later drop or clear
\* included, revokes a handle that is already revoked.
C2_ClearRevokesPreviewOnce ==
  [][ /\ Ran("clear") =>
           /\ previewUrl # Null
           /\ revokeCount[previewUrl[1]] = 0
           /\ revokeCount' = [revokeCount EXCEPT ![previewUrl[1]] = 1]
           /\ previewUrl' = Null
           /\ fileType' = Null
           /\ error' = Null
      /\ \A u \in Ids : revokeCount[u] >= 1 => revokeCount'[u] = revokeCount[u]
    ]_vars

\* C2 witness: a second clear, after a later drop, has run, and both handles
\* are revoked exactly once.
C2_Witness ==
  /\ last.op = "clear" /\ last.id = 2
  /\ revokeCount[1] = 1 /\ revokeCount[2] = 1
  /\ previewUrl = Null

\* C3 as stated: from every reachable session state, running clear leaves
\* the session Idle.
C3_ClearFromAnyStateIsIdle == Idle(ClearPreviewResult(Session))

\* C3 amended: clear is offered only while a preview is shown and isLoading is
\* false, and from every such state it leaves the session Idle; clearPreview
\* run without a preview changes nothing, and it never changes isLoading.
C3_ClearWhereOfferedIsIdle ==
  /\ RemoveButtonShown => Idle(ClearPreviewResult(Session))
  /\ last.op = "clear" => Idle(Session)
  /\ previewUrl = Null => ClearPreviewResult(Session) = Session
  /\ ClearPreviewResult(Session).isLoading = isLoading

\* C3 witness: clear has run on a preview shown with the missing-key error
\* (Previewing with an error) and the session is Idle.
C3_Witness ==
  /\ last.op = "clear"
  /\ att[last.id].pc = "done" /\ ~att[last.id].keyOk
  /\ Idle(Session)

\* C4: a drop of an accepted file made while the API key is absent calls the
\* model for no attempt, invokes onReceiptData for no attempt, leaves
\* isLoading false and the missing-key message set, and its attempt has
\* returned; an attempt made without a key never calls the model or the
\* callback later either.
C4_MissingKeyShortCircuits ==
  [][ /\ (~apiKey /\ created' # created) =>
           /\ error' = Some(ApiKeyMsg)
           /\ isLoading' = FALSE
           /\ \A a \in created' \ created : att'[a].pc = "done"
           /\ \A a \in Ids : att'[a].calls = att[a].calls /\ att'[a].cbs = att[a].cbs
      /\ \A a \in Ids :
           (att[a].pc # "none" /\ ~att[a].keyOk) => (att'[a].calls = 0 /\ att'[a].cbs = 0)
    ]_vars

\* C4 witness: a file was dropped without a key while an earlier attempt was
\* waiting for the model.
C4_Witness ==
  /\ last.op = "noKey" /\ last.id = 2
  /\ att[1].pc = "call"
  /\ error = Some(ApiKeyMsg) /\ ~isLoading

\* C5: an attempt that has returned invoked onReceiptData exactly once if it
\* had a key, an encodable file, a resolved model call and a reply that
\* parses, and never otherwise; an attempt that has not returned has not
\* invoked it.
C5_CallbackOncePerSuccess ==
  \A a \in Ids :
    att[a].cbs =
      IF att[a].pc = "done" /\ att[a].keyOk /\ att[a].encOk /\ att[a].callOk /\ att[a].parseOk
        THEN 1 ELSE 0

\* C5 witness: one attempt delivered its record and another returned after a
\* reply that does not parse.
C5_Witness ==
  \E a, b \in Ids :
    /\ att[a].pc = "done" /\ att[a].cbs = 1
    /\ att[b].pc = "done" /\ att[b].callOk /\ ~att[b].parseOk /\ att[b].cbs = 0

\* C6: at most one processReceipt call is in flight (reading the file or
\* waiting for the model).
C6_SingleFlight == Cardinality(InFlight) <= 1

\* C7: right after an attempt completes successfully the session is
\* Previewing with no error: error unset, isLoading false, preview kept, and
\* the record has been emitted.
C7_SuccessLeavesPreviewNoError ==
  last.op = "success" =>
    /\ error = Null
    /\ ~isLoading
    /\ previewUrl # Null
    /\ att[last.id].cbs = 1

\* C8: a processing error (missing key, encoding, model call, no JSON,
\* malformed JSON) leaves the preview kept and an error set; a drop of an
\* unsupported type leaves an error set and no preview.
C8_ErrorOutcomes ==
  /\ last.op \in {"noKey", "failed"} => (previewUrl # Null /\ error # Null)
  /\ last.op = "unsupported" => (error # Null /\ previewUrl = Null)

\* A declared type that is neither image/* nor application/pdf.
Unsupported(t) == t.major # "image" /\ t # PdfType

C10_UnreadableFileFails ==
  \A a \in Ids :
    (att[a].keyOk /\ ~att[a].readOk /\ att[a].pc # "encode") =>
      /\ att[a].pc = "done"
      /\ att[a].calls = 0 /\ att[a].cbs = 0
      /\ (last = Event("failed", a, Null) => (error = Some(ProcessFailMsg) /\ ~isLoading))

\* The description the derivation rule gives for the decoded object d: the
\* first three items joined by ", ", followed by "..." exactly when there are
\* more than three, if there are items; otherwise the merchant, if there is
\* one (an empty name counting as none); otherwise none.
RuleDescription(d) ==
  IF d.items # Null /\ Len(d.items[1].v) > 0
    THEN LET q == d.items[1].v
             head == CASE Len(q) = 1 -> q[1]
                       [] Len(q) = 2 -> q[1] \o ", " \o q[2]
                       [] OTHER -> q[1] \o ", " \o q[2] \o ", " \o q[3]
         IN Some(JsonStr(IF Len(q) > 3 THEN head \o "..." ELSE head))
    ELSE IF d.merchant # Null /\ d.merchant # Some(JsonStr(""))
           THEN d.merchant
           ELSE Null

\* C11: the description of every emitted record is the one the derivation
\* rule gives for the parsed record; in particular it is absent when the
\* record has neither items nor a merchant, whatever description the model's
\* own JSON carried.
C11_DescriptionIsDerived ==
  emitted # Null => emitted[1].description = RuleDescription(parsed[1])

\* The spans of the text that are one JSON object.
ObjectSpans(text) ==
  { ij \in (1..Len(text)) \X (1..Len(text)) :
      ij[1] < ij[2] /\ JsonParses(SubSeq(text, ij[1], ij[2])) }
\* The text holds exactly one JSON object.
OneObject(text) == Cardinality(ObjectSpans(text)) = 1
TheObject(text) == CHOOSE ij \in ObjectSpans(text) : TRUE
\* No brace character outside the text's one object.
BraceFreeProse(text) ==
  \A k \in 1..Len(text) :
    (k < TheObject(text)[1] \/ k > TheObject(text)[2]) => text[k] \notin {"{", "}"}

\* C12 as stated: for every reply text that holds exactly one JSON object, in
\* any surrounding prose, JSON.parse of the matched span returned the record
\* that decoding that object gives.
C12_OneObjectInAnyProse ==
  (heard # Null /\ heard[1].ok /\ OneObject(heard[1].text)) =>
    LET text == heard[1].text
    IN parsed = Some(JsonDecode(SubSeq(text, TheObject(text)[1], TheObject(text)[2])))

\* C12 amended: the same for every reply text whose surrounding prose holds
\* no brace character.
C12_OneObjectInBraceFreeProse ==
  (heard # Null /\ heard[1].ok /\ OneObject(heard[1].text) /\ BraceFreeProse(heard[1].text)) =>
    LET text == heard[1].text
    IN parsed = Some(JsonDecode(SubSeq(text, TheObject(text)[1], TheObject(text)[2])))

\* C12 witness: an object with a member, prose before it, was parsed.
C12_Witness ==
  /\ heard # Null /\ heard[1].ok
  /\ heard[1].text = <<"p", "{", "merchant:Acme", "}">>
  /\ parsed # Null /\ parsed[1].merchant = Some(JsonStr("Acme"))

\* C13: once the encoding of a PDF without pages has been attempted, the
\* attempt has returned without a model call or a callback, and it left the
\* session not loading, with the generic failure message and a preview.
C13_EmptyPdfFails ==
  \A a \in Ids :
    (att[a].keyOk /\ att[a].readOk /\ ~att[a].encOk /\ att[a].pc # "encode") =>
      /\ att[a].pc = "done"
      /\ att[a].calls = 0 /\ att[a].cbs = 0
      /\ (last = Event("failed", a, Null) =>
            (~isLoading /\ error = Some(ProcessFailMsg) /\ previewUrl # Null))

\* The MIME types the widget is specified to accept.
ListedTypes ==
  { Mime("image", "jpeg"), Mime("image", "jpg"), Mime("image", "png"),
    Mime("image", "heic"), Mime("image", "heif"), PdfType }

\* C14: a preview exists and an attempt is made only for a file of a listed
\* type; a drop of a file of any other type is rejected.
C14_OnlyListedTypes ==
  /\ fileType # Null => fileType[1] \in ListedTypes
  /\ (last.type # Null /\ last.type[1] \notin ListedTypes) => last.op = "unsupported"

\* C15: isLoading is true whenever an attempt is in flight.
C15_LoadingWhileInFlight == InFlight # {} => isLoading

\* C16: a success or a processing failure is delivered only by the attempt
\* of the file whose preview is shown.
C16_OnlyCurrentAttemptDelivers ==
  last.op \in {"success", "failed"} => previewUrl = Some(last.id)

\* C17: every attempt that set isLoading to true eventually returns, its
\* finally block having set isLoading to false.
C17_LoadingEnds ==
  \A a \in Ids : (att[a].pc # "none" /\ att[a].keyOk) ~> (att[a].pc = "done")

\* C18: previewUrl is set exactly when fileType is, and when set they are the
\* object URL and the declared type of the latest accepted file.
C18_PreviewMatchesLatestAccepted ==
  /\ previewUrl = Null <=> fileType = Null
  /\ previewUrl # Null => accepted = Some([url |-> previewUrl[1], type |-> fileType[1]])

\* C18 witness: a PDF dropped while an image was being processed is the
\* preview.
C18_Witness ==
  /\ previewUrl = Some(2) /\ fileType = Some(PdfType)
  /\ att[1].pc = "call"
  /\ last.op = "start" /\ last.id = 2

====
